---- MODULE Spec2Model ----
(***************************************************************************)
(* State-machine model of the enhanced flappy-bird implementation          *)
(* (src/unnamed/part_000): game phases, bird physics, pipe lifecycle,      *)
(* scoring, difficulty, particles and the frame clock.                     *)
(* The legacy fixed-step implementation (src/game.js) follows in a section *)
(* of its own, on the same variables.                                      *)
(*                                                                         *)
(* Units.  The source computes in floating point; the model uses exact     *)
(* integers in units that make every product of the source exact:          *)
(*   length      1/40 px      (600 px = 24000)                             *)
(*   time        1000/60 ms   (one reference frame; 100 ms = 6), so that   *)
(*               normalizedDt = dt / (1000 / targetFPS) = dt               *)
(*   velocity    1/40 px per reference frame                               *)
(*   rotation    1/10 degree  (velocity * 4 degrees = velocity in 1/40 px) *)
(*   wingFrame   1/5          (0.2 per frame = 1, modulo 3 = 15)           *)
(*   life        1/50         (decay 0.02 per frame = 1, life 1 = 50)      *)
(*   multiplier  1/20         (0.05 per score = 1, 1.8 = 36)               *)
(*   highlight   1/2          (0.5 per frame = 1, modulo 20 = 40)          *)
(* Tick timestamps are whole multiples of one reference frame.             *)
(***************************************************************************)
EXTENDS Integers, Sequences, FiniteSets, TLC

\* ---------------------------------------------------------------- CONFIG
canvasWidth == 16000
canvasHeight == 24000
birdX == 3200
birdWidth == 1360
birdHeight == 960
gravity == 24
jumpStrength == -400
terminalVelocity == 400
hitboxPadding == 200
pipeWidth == 2400
pipeGap == 6000
minHeight == 2000
baseSpeed == 100
spawnInterval == 120
groundHeight == 4000
scrollSpeed == 100
rotationEasing == 15
difficultyEnabled == TRUE
speedIncreasePerScore == 1
maxSpeedMultiplier == 36
gapDecreasePerScore == 80
minGap == 4800
heightMargin == 2000
jumpCooldown == 6
maxDeltaTime == 6
particleLife == 50
multiplierOne == 20

START == "start"
PLAYING == "playing"
PAUSED == "paused"
GAME_OVER == "gameOver"
GameState == {START, PLAYING, PAUSED, GAME_OVER}

\* ---------------------------------------------------------------- bounds
\* wall-clock steps between events, in reference frames
Steps == {6}
\* wall-clock steps from the last event to the next frame
FrameSteps == {4, 6}
\* the longest time between two frames
MaxLag == 12
\* largest ground offset explored (it grows by scrollSpeed per reference
\* frame played and is never reset)
MaxGround == 4800
\* the number of inputs that take effect
MaxInputs == 2
\* largest particle buffer explored
MaxParticles == 30
\* largest frame counter explored
MaxFrame == 9
\* the same bounds for the frames at the target rate
UnitMaxFrame == 56
UnitMaxGround == 8000
UnitMaxInputs == 2
\* the same bounds for the game with a pipe
WarmFrames == 119
GameSteps == {6}
GameMaxFrame == 152
GameMaxGround == 20000
GameMaxParticles == 120
\* in the game with a pipe the pause key is used in frames before this one
GamePauseFrames == 124
\* in the game with a pipe the player flaps only while the bird falls faster
\* than this
FlapAbove == 0
\* the same bounds for the long game
AutoMaxFrame == 2300
AutoMaxGround == 1500000
AutoMaxParticles == 150
\* in the long game the player keeps the bird's top above this line
HoverLine == 6000
\* in the long game the clock stands still after this many moving frames of
\* the first pipe, until the second pipe is spawned
PreLatchTicks == 25
AutoRandom == {0}
\* the same bounds for the game with crossing pipes
CrossMaxFrame == 501
\* in that game the first pipe moves during this many frames after its
\* spawn and then stands one step of CrossNudge short of being passed
CrossLead == 25
CrossNudge == 3
\* the third pipe moves during this many frames before the fourth is spawned
CrossApart == 4
\* the player flaps as he likes from this frame on
CrossFree == 490
\* the step of the last frames
CrossLast == 1
\* the legacy game: the largest frame counter explored, and the frame from
\* which the player stops flapping
LegacyMaxFrame == 420
LegacyDrop == 310
\* the same bounds for the game whose first pipe is about to leave
LeavingFrames == 6
LeavingSteps == {1, 6}
\* x of the leaving pipe
LeavingAt == {-40}
\* the values Math.random() returns, in units of 1/RandomDen
RandomDen == 10
RandomValues == {0, 9}
\* best scores found in storage at load
StoredBest == {1}

\* ------------------------------------------------- JavaScript arithmetic
\* NaN: the result of arithmetic on undefined; absorbing, and every
\* comparison with it is false.
NaN == -999999
\* the value of a parameter that was not passed
Undefined == -999998
\* a stored string that is not the decimal form of a number
Junk == -999997

IsNum(a) == a # NaN /\ a # Undefined
Add(a, b) == IF IsNum(a) /\ IsNum(b) THEN a + b ELSE NaN
Sub(a, b) == IF IsNum(a) /\ IsNum(b) THEN a - b ELSE NaN
Mul(a, b) == IF IsNum(a) /\ IsNum(b) THEN a * b ELSE NaN
Lt(a, b) == IsNum(a) /\ IsNum(b) /\ a < b
Gt(a, b) == IsNum(a) /\ IsNum(b) /\ a > b
Le(a, b) == IsNum(a) /\ IsNum(b) /\ a <= b
MathMin(a, b) == IF IsNum(a) /\ IsNum(b) THEN (IF a < b THEN a ELSE b) ELSE NaN
MathMax(a, b) == IF IsNum(a) /\ IsNum(b) THEN (IF a > b THEN a ELSE b) ELSE NaN
\* a % m for a >= 0
Rem(a, m) == IF IsNum(a) THEN a % m ELSE NaN
\* (a * num) / den, rounded down to the model's resolution
Scale(a, num, den) == IF IsNum(a) THEN (a * num) \div den ELSE NaN

VARIABLES
    gameState, score, bestScore, frame, particles, groundOffset,
    deltaTime, difficultyMultiplier, currentPipeGap,
    bird, pipes, mountains,
    storage,      \* localStorage 'bestScore'
    sinceFrame,   \* performance.now() - lastFrameTime, or Undefined
    sinceJump,    \* performance.now() - lastJumpTime
    sinceCall,    \* performance.now() - the time of the last frame callback
    sinceResume,  \* performance.now() - the time of the last resume
    sinceApplied, \* performance.now() - the time of the last jump input that
                  \* applied an impulse or started a game
    writable,     \* localStorage.setItem succeeds (it throws otherwise)
    inputs,       \* the number of inputs handled so far
    pc,           \* "load": before the script's last line; "run": after it,
                  \* a frame callback is scheduled; "dead": none is scheduled
    ev            \* the last handler that ran and what it observed

vars == <<gameState, score, bestScore, frame, particles, groundOffset,
          deltaTime, difficultyMultiplier, currentPipeGap,
          bird, pipes, mountains, storage, sinceFrame, sinceJump, sinceCall,
          sinceResume, sinceApplied, writable, inputs, pc, ev>>

groundLine == canvasHeight - groundHeight

\* ------------------------------------------------------------- particles
\* The buffer is kept run-length encoded: particles pushed by one loop are
\* equal in everything the model keeps (colour and life).
Particle(color) == [color |-> color, life |-> particleLife]
Push(ps, color, count) == Append(ps, [p |-> Particle(color), n |-> count])

RECURSIVE Count(_)
Count(ps) == IF ps = <<>> THEN 0 ELSE Head(ps).n + Count(Tail(ps))

\* particles.slice(-k)
RECURSIVE SliceLast(_, _)
SliceLast(ps, k) ==
    IF ps = <<>> \/ k <= 0 THEN <<>>
    ELSE LET last == ps[Len(ps)]
             rest == SubSeq(ps, 1, Len(ps) - 1)
         IN IF last.n >= k THEN <<[last EXCEPT !.n = k]>>
            ELSE Append(SliceLast(rest, k - last.n), last)

ParticleUpdate(p, dt) == [p EXCEPT !.life = Sub(p.life, dt)]
IsDead(p) == Le(p.life, 0)

RECURSIVE FilterParticles(_, _)
FilterParticles(ps, dt) ==
    IF ps = <<>> THEN <<>>
    ELSE LET g == [Head(ps) EXCEPT !.p = ParticleUpdate(Head(ps).p, dt)]
             rest == FilterParticles(Tail(ps), dt)
         IN IF IsDead(g.p) THEN rest ELSE <<g>> \o rest

UpdateParticles(ps, dt) ==
    LET capped == IF Count(ps) > 200 THEN SliceLast(ps, 100) ELSE ps
    IN FilterParticles(capped, dt)

\* ------------------------------------------------------------------ state
\* The globals a tick or an input handler reads and writes, as one value,
\* with what the handler has done so far: the number of its setItem calls
\* and whether one of them has thrown.
World ==
    [gameState |-> gameState, score |-> score, bestScore |-> bestScore,
     storage |-> storage, frame |-> frame, particles |-> particles,
     difficultyMultiplier |-> difficultyMultiplier,
     currentPipeGap |-> currentPipeGap, bird |-> bird, pipes |-> pipes,
     writable |-> writable, writes |-> 0, thrown |-> FALSE]

\* parseInt(localStorage.getItem('bestScore')) || 0
ParseInt(item) == IF item = <<>> \/ item[1] = Junk THEN NaN ELSE item[1]
OrZero(a) == IF IsNum(a) /\ a # 0 THEN a ELSE 0
LoadBestScore(item) == OrZero(ParseInt(item))

minRotation == -300
maxRotation == 900

BirdAtRest == [y |-> canvasHeight \div 2, velocity |-> 0, rotation |-> 0, wingFrame |-> 0]

BirdReset(b) == [b EXCEPT !.y = canvasHeight \div 2, !.velocity = 0,
                          !.rotation = 0, !.wingFrame = 0]

\* bird.jump() without its particle burst
BirdJumpSilent(g) ==
    [g EXCEPT !.bird.velocity = jumpStrength]

BirdJump(g) ==
    [g EXCEPT !.bird.velocity = jumpStrength,
              !.particles = Push(@, "#FFFFFF", 5)]

\* gameOver(); where the storage cannot be written setItem throws, after
\* the phase and bestScore were assigned
gameOver(g) ==
    LET better == Gt(g.score, g.bestScore)
    IN [g EXCEPT !.gameState = GAME_OVER,
                 !.bestScore = IF better THEN g.score ELSE @,
                 !.storage = IF better /\ g.writable THEN <<g.score>> ELSE @,
                 !.writes = IF better THEN @ + 1 ELSE @,
                 !.thrown = better /\ ~g.writable]

\* the integration step without the terminal-velocity clamp
IntegrateVelocityUnclamped(b, dt) == Add(b.velocity, Mul(gravity, dt))

\* velocity and y after the integration step of bird.update
IntegrateVelocity(b, dt) == MathMin(Add(b.velocity, Mul(gravity, dt)), terminalVelocity)
IntegrateY(b, dt) == Add(b.y, Mul(IntegrateVelocity(b, dt), dt))

\* the ground test written with >= instead of >
HitsGroundTouching(y) == ~Lt(Add(y, birdHeight), groundLine) /\ IsNum(y)

HitsGround(y) == Gt(Add(y, birdHeight), groundLine)

\* the ceiling clamp without the velocity reset
ClampCeilingKeepsVelocity(b) == [b EXCEPT !.y = 0]

ClampCeiling(b) == [b EXCEPT !.y = 0, !.velocity = 0]

BirdUpdate(g, dt) ==
    LET b == g.bird
        v1 == IntegrateVelocity(b, dt)
        y1 == IntegrateY(b, dt)
        targetRotation == MathMin(MathMax(v1, minRotation), maxRotation)
        r1 == Add(b.rotation, Scale(Sub(targetRotation, b.rotation), rotationEasing, 100))
        w1 == Rem(Add(b.wingFrame, dt), 15)
        ground == HitsGround(y1)
        y2 == IF ground THEN groundLine - birdHeight ELSE y1
        v2 == IF ground THEN 0 ELSE v1
        g1 == IF ground /\ g.gameState = PLAYING
              THEN gameOver([g EXCEPT !.particles = Push(@, "#DEB887", 10)])
              ELSE g
        ceiling == Lt(y2, 0)
        b1 == [y |-> y2, velocity |-> v2, rotation |-> r1, wingFrame |-> w1]
    IN [g1 EXCEPT !.bird = IF ceiling /\ ~g1.thrown THEN ClampCeiling(b1) ELSE b1]

\* updateDifficulty() without the two limits
updateDifficultyUnlimited(g) ==
    IF ~difficultyEnabled THEN g
    ELSE [g EXCEPT
            !.difficultyMultiplier = multiplierOne + g.score * speedIncreasePerScore,
            !.currentPipeGap = pipeGap - g.score * gapDecreasePerScore]

updateDifficulty(g) ==
    IF ~difficultyEnabled THEN g
    ELSE [g EXCEPT
            !.difficultyMultiplier =
                MathMin(multiplierOne + g.score * speedIncreasePerScore, maxSpeedMultiplier),
            !.currentPipeGap =
                MathMax(pipeGap - g.score * gapDecreasePerScore, minGap)]

\* new Pipe() whose maxHeight leaves no margin above the ground
NewPipeNoMargin(g, r) ==
    LET maxHeight == canvasHeight - g.currentPipeGap - groundHeight
    IN [x |-> canvasWidth,
        gap |-> g.currentPipeGap,
        topHeight |-> (r * (maxHeight - minHeight)) \div RandomDen + minHeight,
        scored |-> FALSE,
        speed |-> (baseSpeed * g.difficultyMultiplier) \div multiplierOne,
        highlightOffset |-> 0,
        born |-> g.frame]

\* new Pipe() created beyond the right edge
NewPipeBeyondEdge(g, r) ==
    LET maxHeight == canvasHeight - g.currentPipeGap - groundHeight - heightMargin
    IN [x |-> canvasWidth + pipeWidth,
        gap |-> g.currentPipeGap,
        topHeight |-> (r * (maxHeight - minHeight)) \div RandomDen + minHeight,
        scored |-> FALSE,
        speed |-> (baseSpeed * g.difficultyMultiplier) \div multiplierOne,
        highlightOffset |-> 0,
        born |-> g.frame]

\* new Pipe(), with Math.random() = r / RandomDen; born names the pipe in
\* the properties: the frame counter of the tick that spawned it
NewPipe(g, r) ==
    LET maxHeight == canvasHeight - g.currentPipeGap - groundHeight - heightMargin
    IN [x |-> canvasWidth,
        gap |-> g.currentPipeGap,
        topHeight |-> (r * (maxHeight - minHeight)) \div RandomDen + minHeight,
        scored |-> FALSE,
        speed |-> (baseSpeed * g.difficultyMultiplier) \div multiplierOne,
        highlightOffset |-> 0,
        born |-> g.frame]

\* the passing test on the pipe's left edge instead of its right edge
PassedLeftEdge(p) == Lt(p.x, birdX)

\* the bird has passed the pipe
Passed(p) == Lt(Add(p.x, pipeWidth), birdX)

\* pipes[i].update(dt) taking the speed from the current difficulty
PipeUpdateRespeed(g, i, dt) ==
    LET p == g.pipes[i]
        s == (baseSpeed * g.difficultyMultiplier) \div multiplierOne
        p1 == [p EXCEPT !.x = Sub(@, Mul(s, dt)), !.speed = s,
                        !.highlightOffset = Rem(Add(@, dt), 40)]
    IN IF ~p1.scored /\ Passed(p1)
       THEN LET g1 == [g EXCEPT !.pipes[i] = [p1 EXCEPT !.scored = TRUE],
                                !.score = @ + 1]
                g2 == updateDifficulty(g1)
            IN [g2 EXCEPT !.particles = Push(@, "#FFD700", 15)]
       ELSE [g EXCEPT !.pipes[i] = p1]

\* pipes[i].update(dt)
PipeUpdate(g, i, dt) ==
    LET p == g.pipes[i]
        p1 == [p EXCEPT !.x = Sub(@, Mul(p.speed, dt)),
                        !.highlightOffset = Rem(Add(@, dt), 40)]
    IN IF ~p1.scored /\ Passed(p1)
       THEN LET g1 == [g EXCEPT !.pipes[i] = [p1 EXCEPT !.scored = TRUE],
                                !.score = @ + 1]
                g2 == updateDifficulty(g1)
            IN [g2 EXCEPT !.particles = Push(@, "#FFD700", 15)]
       ELSE [g EXCEPT !.pipes[i] = p1]

\* collidesWith without the hitbox padding
CollidesUnpadded(p, b) ==
    /\ Gt(birdX + birdWidth, p.x) /\ Lt(birdX, Add(p.x, pipeWidth))
    /\ \/ Lt(b.y, p.topHeight)
       \/ Gt(Add(b.y, birdHeight), p.topHeight + p.gap)

\* the verdict of pipe.collidesWith(bird)
Collides(p, b) ==
    LET birdLeft == birdX + hitboxPadding
        birdRight == birdX + birdWidth - hitboxPadding
        birdTop == Add(b.y, hitboxPadding)
        birdBottom == Sub(Add(b.y, birdHeight), hitboxPadding)
    IN /\ Gt(birdRight, p.x) /\ Lt(birdLeft, Add(p.x, pipeWidth))
       /\ \/ Lt(birdTop, p.topHeight)
          \/ Gt(birdBottom, p.topHeight + p.gap)

\* the off-screen test on the pipe's left edge
OffScreenLeftEdge(p) == Lt(p.x, 0)

OffScreen(p) == Lt(Add(p.x, pipeWidth), 0)

\* pipes.splice(i, 1) left out
RemoveAtKeeps(s, i) == s

RemoveAt(s, i) == SubSeq(s, 1, i - 1) \o SubSeq(s, i + 1, Len(s))

\* one iteration of the pipe loop of gameLoop
PipeStep(g, i, dt) ==
    LET g1 == PipeUpdate(g, i, dt)
        hit == Collides(g1.pipes[i], g1.bird)
        g2 == IF hit
              THEN gameOver([g1 EXCEPT !.particles = Push(@, "#FF0000", 15)])
              ELSE g1
    IN IF ~g2.thrown /\ OffScreen(g2.pipes[i])
       THEN [g2 EXCEPT !.pipes = RemoveAt(@, i)]
       ELSE g2

\* for (let i = pipes.length - 1; i >= 0; i--)
RECURSIVE PipeLoop(_, _, _)
PipeLoop(g, i, dt) ==
    IF i < 1 \/ g.thrown THEN g ELSE PipeLoop(PipeStep(g, i, dt), i - 1, dt)

\* the new pipe put in front of the others
SpawnInFront(ps, p) == <<p>> \o ps

\* pipes.push(new Pipe())
Spawn(ps, p) == Append(ps, p)

\* the spawn test one frame late
SpawnDueAfter(f) == f % spawnInterval = 1

\* frame % CONFIG.pipe.spawnInterval === 0
SpawnDue(f) == f % spawnInterval = 0

\* the PLAYING branch of gameLoop
PlayingTick(g, dt, r) ==
    LET g1 == [g EXCEPT !.frame = @ + 1]
        g2 == IF SpawnDue(g1.frame)
              THEN [g1 EXCEPT !.pipes = Spawn(@, NewPipe(g1, r))]
              ELSE g1
        g3 == BirdUpdate(g2, dt)
        g4 == PipeLoop(g3, Len(g3.pipes), dt)
    IN IF g4.thrown THEN g4 ELSE [g4 EXCEPT !.particles = UpdateParticles(@, dt)]

\* startGame() without the frame and particle reset
startGameKeepsFrame(g) ==
    [g EXCEPT !.gameState = PLAYING, !.score = 0, !.pipes = <<>>,
              !.difficultyMultiplier = multiplierOne,
              !.currentPipeGap = pipeGap,
              !.bird = BirdReset(@)]

startGame(g) ==
    [g EXCEPT !.gameState = PLAYING, !.score = 0, !.pipes = <<>>,
              !.particles = <<>>, !.frame = 0,
              !.difficultyMultiplier = multiplierOne,
              !.currentPipeGap = pipeGap,
              !.bird = BirdReset(@)]

MountainUpdate(offset, layer, dt) ==
    Rem(Add(offset, Mul(12 * layer, dt)), canvasWidth)

\* ---------------------------------------------------------------- actions
\* what the last handler observed: its kind, the phase it started in,
\* whether it got past its guard, (for a PLAYING tick) the bird's velocity
\* and y right after the integration step, (for a tick) the time since
\* the stored lastFrameTime, the number of its setItem calls and whether
\* an exception ended it, and the best score when the current game started
Observed(kind, accepted, v1, y1) ==
    [kind |-> kind, phase0 |-> gameState, accepted |-> accepted,
     v1 |-> v1, y1 |-> y1, elapsed |-> 0, writes |-> 0, thrown |-> FALSE,
     best0 |-> IF kind = "jump" /\ accepted /\ gameState \in {START, GAME_OVER}
               THEN bestScore ELSE ev.best0]

\* The clock enters the program only through the differences
\* now - lastFrameTime and now - lastJumpTime, so the model keeps those
\* instead of the three timestamps.  sinceJump stops counting at
\* jumpCooldown: larger values behave alike.  sinceResume stops counting
\* at maxDeltaTime, which is also its value while there was no resume.
Elapsed(since, d, cap) ==
    IF IsNum(since) THEN (IF since + d < cap THEN since + d ELSE cap) ELSE since

\* the state when the script has run up to its last line, with one of
\* items in localStorage and w telling whether the storage can be written
Load(items, w) ==
    /\ gameState = START
    /\ score = 0
    /\ storage \in items
    /\ writable = w
    /\ bestScore = LoadBestScore(storage)
    /\ frame = 0
    /\ particles = <<>>
    /\ groundOffset = 0
    /\ sinceFrame = 0
    /\ sinceJump \in {0, jumpCooldown}
    /\ sinceCall = 0
    /\ sinceResume = maxDeltaTime
    /\ sinceApplied = jumpCooldown
    /\ inputs = 0
    /\ deltaTime = 0
    /\ difficultyMultiplier = multiplierOne
    /\ currentPipeGap = pipeGap
    /\ bird = BirdAtRest
    /\ pipes = <<>>
    /\ mountains = <<0, 0>>
    /\ pc = "load"
    /\ ev = [kind |-> "none", phase0 |-> START, accepted |-> FALSE,
             v1 |-> 0, y1 |-> 0, elapsed |-> 0, writes |-> 0,
             thrown |-> FALSE, best0 |-> bestScore]

StoredItems == {<<>>} \cup {<<b>> : b \in StoredBest}

Init == Load(StoredItems, TRUE)

SetWorld(g) ==
    /\ gameState' = g.gameState
    /\ score' = g.score
    /\ bestScore' = g.bestScore
    /\ storage' = g.storage
    /\ frame' = g.frame
    /\ particles' = g.particles
    /\ difficultyMultiplier' = g.difficultyMultiplier
    /\ currentPipeGap' = g.currentPipeGap
    /\ bird' = g.bird
    /\ pipes' = g.pipes
    /\ writable' = g.writable

\* the simulation also advancing while paused
SimulatesPaused(phase) == phase \in {PLAYING, PAUSED}

\* the delta without the cap
CapDeltaNone(elapsed) == elapsed

\* deltaTime = Math.min(deltaTime, 100)
CapDelta(elapsed) == MathMin(elapsed, maxDeltaTime)

\* the phases in which gameLoop advances the simulation
Simulates(phase) == phase = PLAYING

\* gameLoop(currentTime): elapsed is currentTime - lastFrameTime, since is
\* now - currentTime once lastFrameTime = currentTime is stored, and r is
\* the value Math.random() would return
gameLoop(elapsed, since, r) ==
    LET dt == CapDelta(elapsed)
    IN /\ deltaTime' = dt
       /\ sinceFrame' = since
       /\ mountains' = <<MountainUpdate(mountains[1], 1, dt),
                         MountainUpdate(mountains[2], 2, dt)>>
       /\ IF Simulates(gameState)
          THEN LET g == PlayingTick(World, dt, r)
               IN /\ SetWorld(g)
                  /\ groundOffset' = Add(groundOffset, Mul(scrollSpeed, dt))
                  /\ ev' = [Observed("tick", TRUE, IntegrateVelocity(bird, dt),
                                     IntegrateY(bird, dt))
                               EXCEPT !.elapsed = elapsed, !.writes = g.writes,
                                      !.thrown = g.thrown]
          ELSE /\ SetWorld(World)
               /\ groundOffset' = groundOffset
               /\ ev' = [Observed("tick", TRUE, bird.velocity, bird.y)
                            EXCEPT !.elapsed = elapsed]

\* the script's last line: gameLoop() with no argument, so that
\* currentTime, the elapsed time and the stored lastFrameTime are undefined
InitialCall ==
    /\ pc = "load"
    /\ pc' = "run"
    /\ gameLoop(Sub(Undefined, sinceFrame), Undefined, 0)
    /\ UNCHANGED <<sinceJump, sinceCall, sinceResume, sinceApplied, inputs>>

\* the exploration stops at the first state with b.frame frames in the
\* current game, b.ground ground scrolled over all games, or more than
\* b.particles particles in the buffer
Within(b) ==
    /\ frame < b.frame
    /\ Count(particles) <= b.particles
    /\ IsNum(groundOffset) => groundOffset < b.ground

\* where b.limited, at most b.inputs inputs take effect (a pause and its
\* resume count as one)
Budget(b, effective) ==
    IF ~b.limited THEN inputs' = inputs
    ELSE /\ effective => inputs < b.inputs
         /\ inputs' = IF effective THEN inputs + 1 ELSE inputs

\* a frame callback scheduled by requestAnimationFrame(gameLoop), d after
\* the last event; it schedules the next one in its last statement, which
\* an exception keeps it from reaching
Frame(d, b) ==
    /\ pc = "run"
    /\ Within(b)
    /\ sinceCall + d <= b.lag
    /\ sinceCall' = 0
    /\ sinceJump' = Elapsed(sinceJump, d, jumpCooldown)
    /\ sinceResume' = Elapsed(sinceResume, d, maxDeltaTime)
    /\ sinceApplied' = Elapsed(sinceApplied, d, jumpCooldown)
    /\ \E r \in b.random :
          gameLoop(Add(sinceFrame, d), 0, r)
    /\ pc' = IF ev'.thrown THEN "dead" ELSE pc
    /\ UNCHANGED inputs

\* handleJump without its cooldown test
CoolingDownNever(since) == FALSE

\* now - lastJumpTime < jumpCooldown
CoolingDown(since) == since < jumpCooldown

\* click, touchstart or Space: handleJump()
handleJump(b) ==
    /\ pc # "load"
    /\ Within(b)
    /\ Budget(b, sinceJump >= jumpCooldown)
    /\ gameState = PLAYING /\ IsNum(bird.velocity) => bird.velocity > b.flapAbove
    /\ IF CoolingDown(sinceJump)
       THEN /\ ev' = Observed("jump", FALSE, bird.velocity, bird.y)
            /\ UNCHANGED <<gameState, score, bestScore, storage, frame,
                           particles, difficultyMultiplier, currentPipeGap,
                           bird, pipes, writable, sinceJump, sinceApplied>>
       ELSE /\ sinceJump' = 0
            /\ sinceApplied' = IF gameState = PAUSED THEN sinceApplied ELSE 0
            /\ ev' = Observed("jump", TRUE, bird.velocity, bird.y)
            /\ SetWorld(CASE gameState = START -> BirdJump(startGame(World))
                          [] gameState = PLAYING -> BirdJump(World)
                          [] gameState = GAME_OVER -> startGame(World)
                          [] OTHER -> World)
    /\ UNCHANGED <<groundOffset, sinceFrame, sinceCall, sinceResume, deltaTime,
                   mountains, pc>>

\* pauseGame() resuming into the start screen
pauseGameToStart(g) ==
    CASE g.gameState = PLAYING -> [g EXCEPT !.gameState = PAUSED]
      [] g.gameState = PAUSED -> [g EXCEPT !.gameState = START]
      [] OTHER -> g

pauseGame(g) ==
    CASE g.gameState = PLAYING -> [g EXCEPT !.gameState = PAUSED]
      [] g.gameState = PAUSED -> [g EXCEPT !.gameState = PLAYING]
      [] OTHER -> g

\* pauseGame() without lastFrameTime = performance.now()
ResyncNever(phase, since) == since

\* pauseGame()'s effect on now - lastFrameTime: a resume stores
\* lastFrameTime = performance.now()
Resync(phase, since) == IF phase = PAUSED THEN 0 ELSE since

\* keydown with Escape or KeyP
PauseKey(b) ==
    /\ pc # "load"
    /\ Within(b)
    /\ Budget(b, gameState = PLAYING)
    /\ IF gameState = PLAYING \/ gameState = PAUSED
       THEN /\ SetWorld(pauseGame(World))
            /\ sinceFrame' = Resync(gameState, sinceFrame)
            /\ sinceResume' = IF gameState = PAUSED THEN 0 ELSE sinceResume
            /\ ev' = Observed("pause", TRUE, bird.velocity, bird.y)
       ELSE /\ SetWorld(World)
            /\ sinceFrame' = sinceFrame
            /\ sinceResume' = sinceResume
            /\ ev' = Observed("pause", FALSE, bird.velocity, bird.y)
    /\ UNCHANGED <<groundOffset, deltaTime, mountains, sinceJump, sinceCall,
                   sinceApplied, pc>>

\* wall-clock time passes without a frame; frames are at most b.lag apart
Advance(d, b) ==
    /\ pc # "load"
    /\ Within(b)
    /\ sinceCall + d <= b.lag
    /\ sinceCall' = sinceCall + d
    /\ sinceFrame' = IF IsNum(sinceFrame) THEN sinceFrame + d ELSE sinceFrame
    /\ sinceJump' = Elapsed(sinceJump, d, jumpCooldown)
    /\ sinceResume' = Elapsed(sinceResume, d, maxDeltaTime)
    /\ sinceApplied' = Elapsed(sinceApplied, d, jumpCooldown)
    /\ UNCHANGED <<gameState, score, bestScore, frame, particles, groundOffset,
                   deltaTime, difficultyMultiplier, currentPipeGap, bird,
                   pipes, mountains, storage, writable, inputs, pc, ev>>

\* ------------------------------------------------- from the script's load
Bounds == [frame |-> MaxFrame, ground |-> MaxGround, particles |-> MaxParticles,
           limited |-> TRUE, inputs |-> MaxInputs, lag |-> MaxLag,
           flapAbove |-> jumpStrength - 1, random |-> RandomValues]

Tick == \E d \in FrameSteps : Frame(d, Bounds)
JumpInput == handleJump(Bounds)
PauseInput == PauseKey(Bounds)
Wait == \E d \in Steps : Advance(d, Bounds)

Next ==
    \/ InitialCall
    \/ Tick
    \/ JumpInput
    \/ PauseInput
    \/ Wait

Spec == Init /\ [][Next]_vars

\* ------------------------------------------- frames at the target rate
\* The same program with every frame one reference frame after the last
\* event (normalized delta 1).
UnitBounds == [frame |-> UnitMaxFrame, ground |-> UnitMaxGround,
               particles |-> MaxParticles, limited |-> TRUE,
               inputs |-> UnitMaxInputs, lag |-> MaxLag,
               flapAbove |-> jumpStrength - 1, random |-> RandomValues]

UnitTick == Frame(1, UnitBounds)
UnitJump == handleJump(UnitBounds)
UnitPause == PauseKey(UnitBounds)

UnitNext ==
    \/ InitialCall
    \/ UnitTick
    \/ UnitJump
    \/ UnitPause

UnitSpec == Init /\ [][UnitNext]_vars

\* --------------------------------------------------- a game with a pipe
\* The same program on a clock that stands still during the first
\* WarmFrames frames of a game (they all carry one timestamp, delta 0) and
\* then advances by a step of GameSteps per frame, so that pipes are
\* spawned, passed and removed within the bounds.  The player pauses only
\* during the first GamePauseFrames frames of a game.
GameBounds == [frame |-> GameMaxFrame, ground |-> GameMaxGround,
               particles |-> GameMaxParticles, limited |-> FALSE,
               inputs |-> 0, lag |-> MaxLag, flapAbove |-> FlapAbove,
               random |-> RandomValues]

GameClock == IF gameState = PLAYING /\ frame < WarmFrames THEN {0} ELSE GameSteps

GameTick == \E d \in GameClock : Frame(d, GameBounds)
GameJump == handleJump(GameBounds)
GamePause == frame < GamePauseFrames /\ PauseKey(GameBounds)

GameNext ==
    \/ InitialCall
    \/ GameTick
    \/ GameJump
    \/ GamePause

GameSpec == Init /\ [][GameNext]_vars

\* ------------------------------------- a game on storage that is full
\* The game with a pipe in a browser whose localStorage is empty and
\* rejects every write (setItem throws, as it does when the quota is
\* exceeded or storage is denied).
QuotaInit == Load({<<>>}, FALSE)

QuotaSpec == QuotaInit /\ [][GameNext]_vars

\* ------------------------------------------------------------ a long game
\* The same program played by a player who flaps exactly when the bird
\* would otherwise sink below HoverLine, so that the game goes on for many
\* pipes.  Frames are maxDeltaTime apart, except that the clock stands
\* still (several frames carry one timestamp) before the first spawn, from
\* the frame before the first pipe is passed until the second spawn, and
\* between the second and the third spawn: the second and third pipe are
\* then close together and the third, spawned after the score went up, is
\* the faster one.
AutoBounds == [frame |-> AutoMaxFrame, ground |-> AutoMaxGround,
               particles |-> AutoMaxParticles, limited |-> FALSE,
               inputs |-> 0, lag |-> MaxLag, flapAbove |-> jumpStrength - 1,
               random |-> AutoRandom]

\* the clock stands still at the f-th frame of a game
AutoStalled(f) ==
    \/ f < spawnInterval
    \/ spawnInterval + PreLatchTicks <= f /\ f < 2 * spawnInterval
    \/ 2 * spawnInterval < f /\ f < 3 * spawnInterval

AutoClock ==
    IF gameState = PLAYING /\ AutoStalled(frame + 1) THEN {0} ELSE {maxDeltaTime}

\* the player flaps now
CanFlap ==
    /\ sinceJump >= jumpCooldown
    /\ \/ gameState = START
       \/ gameState = PLAYING /\ Gt(IntegrateY(bird, maxDeltaTime), HoverLine)

AutoTick == ~CanFlap /\ \E d \in AutoClock : Frame(d, AutoBounds)
AutoJump == CanFlap /\ handleJump(AutoBounds)

AutoNext ==
    \/ InitialCall
    \/ AutoTick
    \/ AutoJump

AutoSpec == Init /\ [][AutoNext]_vars

\* ------------------------------------------- a game with crossing pipes
\* The same program on a clock that stands still for long stretches, so
\* that pipes are spawned close together: the first pipe stops just short
\* of being passed; the second is spawned in the frame in which the first
\* is passed (at the old speed); the third, faster, is spawned next to the
\* second and overtakes it; the fourth follows the third after CrossApart
\* moving frames.  The player hovers in the gaps until frame CrossFree and
\* then flaps as he likes.  The exploration ends with the game.
CrossBounds == [frame |-> CrossMaxFrame, ground |-> AutoMaxGround,
                particles |-> AutoMaxParticles, limited |-> FALSE,
                inputs |-> 0, lag |-> MaxLag, flapAbove |-> jumpStrength - 1,
                random |-> AutoRandom]

\* the steps the clock can make before the f-th frame of the game
CrossClock(f) ==
    CASE f < spawnInterval -> {0}
      [] f < spawnInterval + CrossLead -> {maxDeltaTime}
      [] f < 2 * spawnInterval -> {0}
      [] f = 2 * spawnInterval -> {CrossNudge}
      [] f < 3 * spawnInterval -> {0}
      [] f < 3 * spawnInterval + CrossApart -> {maxDeltaTime}
      [] f < 4 * spawnInterval -> {0}
      [] f < CrossMaxFrame - 1 -> {maxDeltaTime}
      [] OTHER -> {CrossLast}

CrossTick ==
    /\ gameState # GAME_OVER
    /\ frame < CrossFree => ~CanFlap
    /\ \E d \in IF gameState = PLAYING THEN CrossClock(frame + 1) ELSE {maxDeltaTime} :
          Frame(d, CrossBounds)

CrossJump ==
    /\ gameState # GAME_OVER
    /\ frame < CrossFree => CanFlap
    /\ handleJump(CrossBounds)

CrossNext ==
    \/ InitialCall
    \/ CrossTick
    \/ CrossJump

CrossInit == Load({<<>>}, TRUE)

CrossSpec == CrossInit /\ [][CrossNext]_vars

\* ------------------------------------------- a pipe about to leave
\* The program in the middle of a game whose first pipe, already passed,
\* has reached an x of LeavingAt near the left edge (x = -1 px is reached
\* through deltas that are not whole reference frames, so this game starts
\* from that state instead of the script's load).  The ground has scrolled
\* as far as the pipe has moved, both at 2.5 px per reference frame.
LeavingFrame == spawnInterval + (canvasWidth \div baseSpeed)

LeavingBird == [BirdAtRest EXCEPT !.velocity = jumpStrength]

LeavingInit ==
    /\ gameState = PLAYING
    /\ score = 1
    /\ storage \in StoredItems
    /\ writable = TRUE
    /\ bestScore = LoadBestScore(storage)
    /\ frame = LeavingFrame
    /\ particles = <<>>
    /\ \E x \in LeavingAt :
          /\ pipes = <<[x |-> x, gap |-> pipeGap, topHeight |-> minHeight,
                        scored |-> TRUE, speed |-> baseSpeed,
                        highlightOffset |-> 0, born |-> spawnInterval]>>
          /\ groundOffset = canvasWidth - x
    /\ sinceFrame = 0
    /\ sinceJump = 0
    /\ sinceCall = 0
    /\ sinceResume = maxDeltaTime
    /\ sinceApplied = 0
    /\ inputs = 0
    /\ deltaTime = 1
    /\ difficultyMultiplier = multiplierOne + speedIncreasePerScore
    /\ currentPipeGap = pipeGap - gapDecreasePerScore
    /\ bird = LeavingBird
    /\ mountains = <<0, 0>>
    /\ pc = "run"
    /\ ev = [kind |-> "jump", phase0 |-> PLAYING, accepted |-> TRUE,
             v1 |-> 0, y1 |-> bird.y, elapsed |-> 0, writes |-> 0,
             thrown |-> FALSE, best0 |-> bestScore]

LeavingBounds == [frame |-> LeavingFrame + LeavingFrames,
                  ground |-> 2 * canvasWidth + 20 * canvasWidth,
                  particles |-> MaxParticles, limited |-> FALSE,
                  inputs |-> 0, lag |-> MaxLag,
                  flapAbove |-> jumpStrength - 1, random |-> RandomValues]

LeavingTick == \E d \in LeavingSteps : Frame(d, LeavingBounds)
LeavingJump == handleJump(LeavingBounds)

LeavingNext ==
    \/ LeavingTick
    \/ LeavingJump

LeavingSpec == LeavingInit /\ [][LeavingNext]_vars

\* ------------------------------------------ the legacy implementation
\* src/game.js: the same game on a fixed step, one step per frame
\* callback, with no clock, no pause, no cooldown and no difficulty.  Canvas
\* and bird box have the sizes of the enhanced game (400 x 600 px; 80, 34,
\* 24 px), the bird's drawing state (rotation, wingFrame) and a particle's
\* life follow the same formulas at normalized delta 1, and the model's
\* units are the same.  Of the variables, deltaTime, difficultyMultiplier,
\* currentPipeGap, writable, pc, inputs and the clocks keep their initial
\* values here.
legacyGravity == 24
legacyJumpStrength == -400
legacyTerminalVelocity == 400
legacyGroundHeight == 4000
legacyPipeWidth == 2400
legacyGap == 6000
legacyMinHeight == 2000
legacyHeightMargin == 6000
legacySpeed == 100
legacyPadding == 200
legacyScroll == 100
pipeInterval == 120

\* the number a comparison makes of a best score read from storage
ToNumber(a) == IF a = Junk THEN NaN ELSE a

\* localStorage.getItem('bestScore') || 0: the stored text itself
legacyLoadBestScore(item) == IF item = <<>> THEN 0 ELSE item[1]

legacyGameOver(g) ==
    LET better == Gt(g.score, ToNumber(g.bestScore))
    IN [g EXCEPT !.gameState = GAME_OVER,
                 !.bestScore = IF better THEN g.score ELSE @,
                 !.storage = IF better THEN <<g.score>> ELSE @,
                 !.writes = IF better THEN @ + 1 ELSE @]

legacyBirdJump(g) ==
    [g EXCEPT !.bird.velocity = legacyJumpStrength,
              !.particles = Push(@, "#FFFFFF", 5)]

legacyIntegrateVelocity(b) == MathMin(Add(b.velocity, legacyGravity), legacyTerminalVelocity)
legacyIntegrateY(b) == Add(b.y, legacyIntegrateVelocity(b))

\* bird.update()
legacyBirdUpdate(g) ==
    LET b == g.bird
        v1 == legacyIntegrateVelocity(b)
        y1 == legacyIntegrateY(b)
        targetRotation == MathMin(MathMax(v1, minRotation), maxRotation)
        r1 == Add(b.rotation, Scale(Sub(targetRotation, b.rotation), rotationEasing, 100))
        w1 == Rem(Add(b.wingFrame, 1), 15)
        ground == Gt(Add(y1, birdHeight), canvasHeight - legacyGroundHeight)
        y2 == IF ground THEN canvasHeight - legacyGroundHeight - birdHeight ELSE y1
        v2 == IF ground THEN 0 ELSE v1
        g1 == IF ground /\ g.gameState = PLAYING
              THEN legacyGameOver([g EXCEPT !.particles = Push(@, "#DEB887", 10)])
              ELSE g
        b1 == [y |-> y2, velocity |-> v2, rotation |-> r1, wingFrame |-> w1]
    IN [g1 EXCEPT !.bird = IF Lt(y2, 0) THEN [b1 EXCEPT !.y = 0, !.velocity = 0] ELSE b1]

\* new Pipe(), with Math.random() = r / RandomDen
legacyNewPipe(g, r) ==
    LET maxHeight == canvasHeight - legacyGap - legacyHeightMargin
    IN [x |-> canvasWidth,
        gap |-> legacyGap,
        topHeight |-> (r * (maxHeight - legacyMinHeight)) \div RandomDen + legacyMinHeight,
        scored |-> FALSE,
        speed |-> legacySpeed,
        highlightOffset |-> 0,
        born |-> g.frame]

\* pipes[i].update()
legacyPipeUpdate(g, i) ==
    LET p == g.pipes[i]
        p1 == [p EXCEPT !.x = Sub(@, p.speed),
                        !.highlightOffset = Rem(Add(@, 1), 40)]
    IN IF ~p1.scored /\ Lt(Add(p1.x, legacyPipeWidth), birdX)
       THEN [g EXCEPT !.pipes[i] = [p1 EXCEPT !.scored = TRUE],
                      !.score = @ + 1,
                      !.particles = Push(@, "#FFD700", 8)]
       ELSE [g EXCEPT !.pipes[i] = p1]

\* the verdict of pipe.collidesWith(bird)
legacyCollides(p, b) ==
    LET birdLeft == birdX + legacyPadding
        birdRight == birdX + birdWidth - legacyPadding
        birdTop == Add(b.y, legacyPadding)
        birdBottom == Sub(Add(b.y, birdHeight), legacyPadding)
    IN /\ Gt(birdRight, p.x) /\ Lt(birdLeft, Add(p.x, legacyPipeWidth))
       /\ \/ Lt(birdTop, p.topHeight)
          \/ Gt(birdBottom, p.topHeight + p.gap)

\* the callback of pipes.forEach for the pipe at index i
legacyPipeStep(g, i) ==
    LET g1 == legacyPipeUpdate(g, i)
        hit == legacyCollides(g1.pipes[i], g1.bird)
        g2 == IF hit
              THEN legacyGameOver([g1 EXCEPT !.particles = Push(@, "#FF0000", 15)])
              ELSE g1
    IN IF Lt(Add(g2.pipes[i].x, legacyPipeWidth), 0)
       THEN [g2 EXCEPT !.pipes = RemoveAt(@, i)]
       ELSE g2

\* pipes.forEach(...): the indices run upwards to the length the array had
\* at the call, and an index the array no longer has is passed over, while
\* the callback's splice moves the later pipes one index down
RECURSIVE legacyPipeLoop(_, _, _)
legacyPipeLoop(g, i, n) ==
    IF i > n THEN g
    ELSE IF i > Len(g.pipes) THEN legacyPipeLoop(g, i + 1, n)
    ELSE legacyPipeLoop(legacyPipeStep(g, i), i + 1, n)

\* the PLAYING branch of gameLoop
legacyPlayingTick(g, r) ==
    LET g1 == [g EXCEPT !.frame = @ + 1]
        g2 == IF g1.frame % pipeInterval = 0
              THEN [g1 EXCEPT !.pipes = Append(@, legacyNewPipe(g1, r))]
              ELSE g1
        g3 == legacyBirdUpdate(g2)
        g4 == legacyPipeLoop(g3, 1, Len(g3.pipes))
    IN [g4 EXCEPT !.particles = FilterParticles(@, 1)]

legacyStartGame(g) ==
    [g EXCEPT !.gameState = PLAYING, !.score = 0, !.pipes = <<>>,
              !.bird = BirdReset(@)]

\* what the last legacy handler observed: as Observed, and ticks, the
\* number of PLAYING ticks since the current game started
legacyObserved(kind, ticks) ==
    [kind |-> kind, phase0 |-> gameState, accepted |-> TRUE,
     v1 |-> bird.velocity, y1 |-> bird.y, elapsed |-> 1, writes |-> 0,
     thrown |-> FALSE,
     best0 |-> IF kind = "jump" /\ gameState \in {START, GAME_OVER}
               THEN bestScore ELSE ev.best0,
     ticks |-> ticks]

\* gameLoop()
legacyGameLoop(r) ==
    /\ mountains' = <<MountainUpdate(mountains[1], 1, 1),
                      MountainUpdate(mountains[2], 2, 1)>>
    /\ IF gameState = PLAYING
       THEN LET g == legacyPlayingTick(World, r)
            IN /\ SetWorld(g)
               /\ groundOffset' = groundOffset + legacyScroll
               /\ ev' = [legacyObserved("tick", ev.ticks + 1) EXCEPT
                            !.v1 = legacyIntegrateVelocity(bird),
                            !.y1 = legacyIntegrateY(bird),
                            !.writes = g.writes]
       ELSE /\ SetWorld(World)
            /\ groundOffset' = groundOffset
            /\ ev' = legacyObserved("tick", ev.ticks)
    /\ UNCHANGED <<deltaTime, sinceFrame, sinceJump, sinceCall, sinceResume,
                   sinceApplied, inputs, pc>>

\* click or Space: handleJump()
legacyHandleJump ==
    /\ SetWorld(CASE gameState = START -> legacyBirdJump(legacyStartGame(World))
                  [] gameState = PLAYING -> legacyBirdJump(World)
                  [] gameState = GAME_OVER -> legacyStartGame(World)
                  [] OTHER -> World)
    /\ ev' = legacyObserved("jump", IF gameState = PLAYING THEN ev.ticks ELSE 0)
    /\ UNCHANGED <<groundOffset, mountains, deltaTime, sinceFrame, sinceJump,
                   sinceCall, sinceResume, sinceApplied, inputs, pc>>

\* the texts found in storage at load: none, a number, not a number
LegacyItems == StoredItems \cup {<<Junk>>}

\* the state when the script has run up to its last line
LegacyInit ==
    /\ gameState = START
    /\ score = 0
    /\ storage \in LegacyItems
    /\ writable = TRUE
    /\ bestScore = legacyLoadBestScore(storage)
    /\ frame = 0
    /\ particles = <<>>
    /\ groundOffset = 0
    /\ sinceFrame = 0
    /\ sinceJump = jumpCooldown
    /\ sinceCall = 0
    /\ sinceResume = maxDeltaTime
    /\ sinceApplied = jumpCooldown
    /\ inputs = 0
    /\ deltaTime = 1
    /\ difficultyMultiplier = multiplierOne
    /\ currentPipeGap = legacyGap
    /\ bird = BirdAtRest
    /\ pipes = <<>>
    /\ mountains = <<0, 0>>
    /\ pc = "run"
    /\ ev = [kind |-> "none", phase0 |-> START, accepted |-> FALSE,
             v1 |-> 0, y1 |-> 0, elapsed |-> 0, writes |-> 0,
             thrown |-> FALSE, best0 |-> bestScore, ticks |-> 0]

\* The player starts a game after the script's own gameLoop() call, keeps
\* the bird's top above HoverLine until frame LegacyDrop, never flaps from
\* then on, and starts again as soon as a game is over.
LegacyMustFlap ==
    /\ gameState = PLAYING
    /\ frame < LegacyDrop
    /\ bird.velocity # legacyJumpStrength
    /\ Gt(legacyIntegrateY(bird), HoverLine)

LegacyTick ==
    /\ frame < LegacyMaxFrame
    /\ gameState = PLAYING => ~LegacyMustFlap
    /\ gameState # PLAYING => ev.kind = "none"
    /\ \E r \in AutoRandom : legacyGameLoop(r)

LegacyJump ==
    /\ frame < LegacyMaxFrame
    /\ gameState = PLAYING => LegacyMustFlap
    /\ legacyHandleJump

LegacyNext ==
    \/ LegacyTick
    \/ LegacyJump

LegacySpec == LegacyInit /\ [][LegacyNext]_vars

\* ----------------------------------------------------------- properties
\* The step was taken by the handler of the given kind (time passing
\* without a handler lets sinceCall grow and leaves ev alone).
HandlerStep(kind) == ev'.kind = kind /\ sinceCall' <= sinceCall

\* the last handler was a tick that started in PLAYING
AfterPlayingTick == ev.kind = "tick" /\ ev.phase0 = PLAYING

\* the last handler was a jump input that passed the cooldown in phase
AfterJumpIn(phase) == ev.kind = "jump" /\ ev.accepted /\ ev.phase0 = phase

HitsSomePipe(ps, b) == \E i \in 1..Len(ps) : Collides(ps[i], b)

Unscored(ps) == Cardinality({i \in 1..Len(ps) : ~ps[i].scored})

Max(a, b) == IF a > b THEN a ELSE b

\* C1: the phase changes only START -> PLAYING (jump input), PLAYING ->
\* PAUSED and PAUSED -> PLAYING (pause input), PLAYING -> GAME_OVER (a tick
\* that detects a collision) and GAME_OVER -> PLAYING (jump input); a pause
\* input in START or GAME_OVER changes nothing, a jump input in PAUSED does
\* not change the phase, and START is never re-entered.
C1_Change ==
    \/ gameState' = gameState
    \/ gameState = START /\ gameState' = PLAYING /\ HandlerStep("jump")
    \/ gameState = PLAYING /\ gameState' = PAUSED /\ HandlerStep("pause")
    \/ gameState = PAUSED /\ gameState' = PLAYING /\ HandlerStep("pause")
    \/ /\ gameState = PLAYING /\ gameState' = GAME_OVER /\ HandlerStep("tick")
       /\ \/ Gt(Add(ev'.y1, birdHeight), groundLine)
          \/ HitsSomePipe(pipes', bird')
    \/ gameState = GAME_OVER /\ gameState' = PLAYING /\ HandlerStep("jump")

C1_PhaseTransitions ==
    [][/\ C1_Change
       /\ HandlerStep("pause") /\ gameState \in {START, GAME_OVER} =>
             UNCHANGED <<gameState, score, bestScore, storage, frame,
                         particles, groundOffset, deltaTime,
                         difficultyMultiplier, currentPipeGap, bird, pipes,
                         mountains, sinceFrame, sinceJump>>
       /\ HandlerStep("jump") /\ gameState = PAUSED => gameState' = PAUSED]_vars

C1_Restarted ==
    gameState = PLAYING /\ AfterJumpIn(GAME_OVER)

\* C2: right after a jump input accepted in START the phase is PLAYING,
\* score 0, no pipes, frame 0, difficulty multiplier 1, pipe gap the base
\* gap, the bird at the vertical centre with rotation 0, wing frame 0 and
\* velocity jumpStrength, and the particles are exactly those of that jump.
C2_StartTransition ==
    AfterJumpIn(START) =>
        /\ gameState = PLAYING
        /\ score = 0
        /\ pipes = <<>>
        /\ frame = 0
        /\ difficultyMultiplier = multiplierOne
        /\ currentPipeGap = pipeGap
        /\ bird = [y |-> canvasHeight \div 2, velocity |-> jumpStrength,
                   rotation |-> 0, wingFrame |-> 0]
        /\ particles = <<[p |-> [color |-> "#FFFFFF", life |-> particleLife],
                          n |-> 5]>>

C2_Started ==
    AfterJumpIn(START) /\ gameState = PLAYING /\ bird.velocity = jumpStrength

\* C3 as stated: right after a jump input accepted in GAME_OVER the state
\* equals the state right after a jump input accepted in START, jump
\* impulse and jump particles included.
C3_RestartLikeStart ==
    AfterJumpIn(GAME_OVER) =>
        /\ gameState = PLAYING
        /\ score = 0
        /\ pipes = <<>>
        /\ frame = 0
        /\ difficultyMultiplier = multiplierOne
        /\ currentPipeGap = pipeGap
        /\ bird = [y |-> canvasHeight \div 2, velocity |-> jumpStrength,
                   rotation |-> 0, wingFrame |-> 0]
        /\ particles = <<[p |-> [color |-> "#FFFFFF", life |-> particleLife],
                          n |-> 5]>>

\* C3 amended: right after a jump input accepted in GAME_OVER the phase is
\* PLAYING with the same full reset as from START (score 0, no pipes,
\* frame 0, multiplier 1, base gap, bird at the centre with rotation 0 and
\* wing frame 0), but without the jump: velocity 0 and no particles.
C3_RestartWithoutJump ==
    AfterJumpIn(GAME_OVER) =>
        /\ gameState = PLAYING
        /\ score = 0
        /\ pipes = <<>>
        /\ frame = 0
        /\ difficultyMultiplier = multiplierOne
        /\ currentPipeGap = pipeGap
        /\ bird = [y |-> canvasHeight \div 2, velocity |-> 0,
                   rotation |-> 0, wingFrame |-> 0]
        /\ particles = <<>>

C3_RestartedAtRest ==
    AfterJumpIn(GAME_OVER) /\ bird.velocity = 0 /\ frame = 0

\* C4 as stated: the best score never decreases, and in GAME_OVER it is the
\* maximum of the best score before the game and the game's score, so it
\* is at least the score.
C4_BestIsMax ==
    /\ [](gameState = GAME_OVER => bestScore = Max(ev.best0, score))
    /\ [][bestScore' >= bestScore]_vars

\* C5: a pipe's scored flag is set exactly when its right edge is strictly
\* left of the bird's x and is never cleared; within a game the score only
\* grows, by one per latch, so that it is the number of pipes spawned in
\* the game that have latched.
C5_ScoreCountsLatches ==
    /\ [](/\ \A i \in 1..Len(pipes) :
                pipes[i].scored <=> pipes[i].x + pipeWidth < birdX
          /\ score = frame \div spawnInterval - Unscored(pipes))
    /\ [][\/ score' = score
          \/ score' = 0 /\ HandlerStep("jump") /\ gameState \in {START, GAME_OVER}
          \/ /\ HandlerStep("tick") /\ gameState = PLAYING
             /\ score' > score
             /\ score' - score =
                   Unscored(pipes) - Unscored(pipes')
                   + (IF frame' % spawnInterval = 0 THEN 1 ELSE 0)]_vars

C5_PipeLatched ==
    /\ ev.kind = "tick"
    /\ score >= 1
    /\ \E i \in 1..Len(pipes) : pipes[i].scored

\* C6: a tick in START, PAUSED or GAME_OVER leaves the phase, the bird, the
\* pipes, score, best score, frame counter, difficulty values, ground
\* offset and particles unchanged.
C6_IdleTick ==
    [][HandlerStep("tick") /\ gameState # PLAYING =>
          UNCHANGED <<gameState, bird, pipes, score, bestScore, storage,
                      frame, difficultyMultiplier, currentPipeGap,
                      groundOffset, particles>>]_vars

C6_PausedTick ==
    /\ gameState = PAUSED
    /\ ev.kind = "tick" /\ ev.phase0 = PAUSED
    /\ Len(pipes) > 0
    /\ particles # <<>>

\* C7 as stated: if after the integration step of a PLAYING tick
\* y + height >= groundLine, then at the end of the tick
\* y = groundLine - height, velocity = 0 and the phase is GAME_OVER.
C7_GroundAtOrBelow ==
    AfterPlayingTick /\ IsNum(ev.y1) /\ ev.y1 + birdHeight >= groundLine =>
        /\ bird.y = groundLine - birdHeight
        /\ bird.velocity = 0
        /\ gameState = GAME_OVER

\* C7 amended: if after the integration step y + height > groundLine, then
\* at the end of the tick y = groundLine - height, velocity = 0 and the
\* phase is GAME_OVER; at y + height = groundLine the bird keeps its
\* integrated y and velocity and the ground does not end the game.
C7_GroundStrictlyBelow ==
    AfterPlayingTick /\ IsNum(ev.y1) =>
        /\ ev.y1 + birdHeight > groundLine =>
              /\ bird.y = groundLine - birdHeight
              /\ bird.velocity = 0
              /\ gameState = GAME_OVER
        /\ ev.y1 + birdHeight = groundLine =>
              /\ bird.y = ev.y1
              /\ bird.velocity = ev.v1
              /\ gameState = GAME_OVER => HitsSomePipe(pipes, bird)

C7_Landed ==
    /\ AfterPlayingTick
    /\ Gt(Add(ev.y1, birdHeight), groundLine)
    /\ gameState = GAME_OVER
    /\ bird.y = groundLine - birdHeight

\* C8 as stated: after every PLAYING tick with a delta in [0, 100 ms],
\* 0 <= y <= groundLine - height.
C8_BirdInBand ==
    AfterPlayingTick /\ Le(0, deltaTime) /\ Le(deltaTime, maxDeltaTime) =>
        Le(0, bird.y) /\ Le(bird.y, groundLine - birdHeight)

\* C9 as stated: the velocity never exceeds terminalVelocity, is exactly
\* jumpStrength right after an applied jump, and once it has reached
\* terminalVelocity it stays there on every later tick at normalized
\* delta 1 without a jump.
C9_StaysTerminal ==
    /\ [](~Gt(bird.velocity, terminalVelocity))
    /\ [](AfterJumpIn(START) \/ AfterJumpIn(PLAYING) => bird.velocity = jumpStrength)
    /\ [][HandlerStep("tick") /\ gameState = PLAYING /\ deltaTime' = 1
          /\ bird.velocity = terminalVelocity
          => bird'.velocity = terminalVelocity]_vars

\* C9 amended: the velocity never exceeds terminalVelocity, is exactly
\* jumpStrength right after an applied jump, and a PLAYING tick at
\* normalized delta 1 raises it by gravity up to terminalVelocity, where it
\* stays until a tick takes the bird past the ground line (or above the
\* ceiling), which sets it to 0.
C9_TerminalUntilContact ==
    /\ [](~Gt(bird.velocity, terminalVelocity))
    /\ [](AfterJumpIn(START) \/ AfterJumpIn(PLAYING) => bird.velocity = jumpStrength)
    /\ [][HandlerStep("tick") /\ gameState = PLAYING /\ deltaTime' = 1
          /\ IsNum(bird.velocity)
          => bird'.velocity =
                IF \/ Gt(Add(ev'.y1, birdHeight), groundLine)
                   \/ Lt(ev'.y1, 0)
                THEN 0
                ELSE IF bird.velocity + gravity < terminalVelocity
                     THEN bird.velocity + gravity
                     ELSE terminalVelocity]_vars

C9_AtTerminal ==
    /\ AfterPlayingTick
    /\ gameState = PLAYING
    /\ deltaTime = 1
    /\ ev.v1 = terminalVelocity
    /\ bird.velocity = terminalVelocity

\* C10: if after the integration step of a PLAYING tick y < 0, then at the
\* end of the tick y = 0 and velocity = 0, and the phase is GAME_OVER only
\* if a pipe is hit: the ceiling alone never ends the game.
C10_Ceiling ==
    AfterPlayingTick /\ Lt(ev.y1, 0) =>
        /\ bird.y = 0
        /\ bird.velocity = 0
        /\ gameState = GAME_OVER => HitsSomePipe(pipes, bird)

C10_Clamped ==
    /\ AfterPlayingTick
    /\ Lt(ev.y1, 0)
    /\ bird.y = 0
    /\ gameState = PLAYING

\* the names (spawn frames) of the pipes of a sequence
Born(ps) == {ps[i].born : i \in 1..Len(ps)}

\* the place in ps of the pipe named b
Place(ps, b) == CHOOSE i \in 1..Len(ps) : ps[i].born = b

PlayingTickStep == HandlerStep("tick") /\ gameState = PLAYING

GameStartStep == HandlerStep("jump") /\ gameState \in {START, GAME_OVER}

\* C11: the difficulty state is the stated function of the score:
\* multiplier = min(1 + score * speedIncreasePerScore, maxSpeedMultiplier)
\* and gap = max(baseGap - score * gapDecreasePerScore, minGap); so
\* 1 <= multiplier <= max, minGap <= gap <= baseGap, and both have their
\* starting values at score 0.
C11_DifficultyOfScore ==
    /\ difficultyMultiplier =
          IF multiplierOne + score * speedIncreasePerScore < maxSpeedMultiplier
          THEN multiplierOne + score * speedIncreasePerScore
          ELSE maxSpeedMultiplier
    /\ currentPipeGap =
          IF pipeGap - score * gapDecreasePerScore > minGap
          THEN pipeGap - score * gapDecreasePerScore
          ELSE minGap
    /\ multiplierOne <= difficultyMultiplier
    /\ difficultyMultiplier <= maxSpeedMultiplier
    /\ minGap <= currentPipeGap /\ currentPipeGap <= pipeGap
    /\ score = 0 => difficultyMultiplier = multiplierOne /\ currentPipeGap = pipeGap

C11_BothLimitsReached ==
    /\ multiplierOne + score * speedIncreasePerScore > maxSpeedMultiplier
    /\ pipeGap - score * gapDecreasePerScore < minGap
    /\ difficultyMultiplier = maxSpeedMultiplier
    /\ currentPipeGap = minGap
    /\ IsNum(bird.y)

\* C12: a PLAYING tick adds 1 to the frame counter whatever the delta and
\* appends exactly one pipe when the counter becomes a multiple of
\* spawnInterval and none otherwise; no other step appends a pipe or
\* changes the counter, except that a game start resets it to 0; so the
\* first pipe of a game appears on its 120th PLAYING tick.
C12_SpawnOnInterval ==
    /\ [](pipes # <<>> => frame >= spawnInterval)
    /\ [][LET fresh == {i \in 1..Len(pipes') : pipes'[i].born \notin Born(pipes)}
          IN IF PlayingTickStep
             THEN /\ frame' = frame + 1
                  /\ IF frame' % spawnInterval = 0
                     THEN fresh = {Len(pipes')} /\ pipes' # <<>>
                     ELSE fresh = {}
             ELSE /\ fresh = {}
                  /\ \/ frame' = frame
                     \/ frame' = 0 /\ GameStartStep]_vars

C12_FirstPipeSpawned ==
    /\ AfterPlayingTick
    /\ frame = spawnInterval
    /\ Born(pipes) = {spawnInterval}

\* C13 as stated: after the PLAYING tick on which the frame counter
\* reaches 120 the active sequence contains exactly one new pipe and that
\* pipe is at x = playfield width.
C13_NewPipeAtWidth ==
    AfterPlayingTick /\ frame = spawnInterval =>
        Len(pipes) = 1 /\ pipes[1].x = canvasWidth

\* C13 amended: after that tick the active sequence contains exactly one
\* new pipe, which was created at x = playfield width and has already been
\* moved by the same tick: x = width - baseSpeed * normalized delta.
C13_NewPipeMovedOnce ==
    AfterPlayingTick /\ frame = spawnInterval =>
        /\ Len(pipes) = 1
        /\ IsNum(deltaTime)
        /\ pipes[1].x = canvasWidth - baseSpeed * deltaTime

C13_NewPipeLeftOfEdge ==
    /\ AfterPlayingTick
    /\ frame = spawnInterval
    /\ Len(pipes) = 1
    /\ pipes[1].x < canvasWidth

\* C14: no pipe with x + width < 0 is left in the active sequence; a tick
\* removes only pipes whose moved x + width < 0, only a game start
\* empties the sequence otherwise, and the remaining pipes keep their
\* relative order.
C14_Removal ==
    /\ [](\A i \in 1..Len(pipes) : pipes[i].x + pipeWidth >= 0)
    /\ [][/\ \A i \in 1..Len(pipes) :
                pipes[i].born \notin Born(pipes') =>
                    \/ GameStartStep
                    \/ /\ PlayingTickStep
                       /\ pipes[i].x - pipes[i].speed * deltaTime' + pipeWidth < 0
          /\ \A i, j \in 1..Len(pipes') :
                /\ i < j
                /\ pipes'[i].born \in Born(pipes)
                /\ pipes'[j].born \in Born(pipes)
                => Place(pipes, pipes'[i].born) < Place(pipes, pipes'[j].born)]_vars

C14_OldestRemoved ==
    /\ AfterPlayingTick
    /\ Len(pipes) = 2
    /\ pipes[1].born = 2 * spawnInterval
    /\ pipes[2].born = 3 * spawnInterval

C16_LeftmostFirst ==
    \A i, j \in 1..Len(pipes) :
        i < j => pipes[i].born < pipes[j].born /\ pipes[i].x <= pipes[j].x

\* C16 amended: the active sequence is in spawn order (oldest first); it
\* is leftmost-first between pipes of equal speed (and a later pipe is
\* never slower than an earlier one), but a later, faster pipe can overtake
\* an earlier one.
C16_SpawnOrder ==
    \A i, j \in 1..Len(pipes) :
        i < j =>
            /\ pipes[i].born < pipes[j].born
            /\ pipes[i].speed <= pipes[j].speed
            /\ pipes[i].speed = pipes[j].speed => pipes[i].x <= pipes[j].x

C16_Overtaken ==
    \E i, j \in 1..Len(pipes) :
        /\ i < j
        /\ pipes[i].born < pipes[j].born
        /\ pipes[i].x > pipes[j].x

\* the particle buffer holds a burst of the colour
HasBurst(color) == \E k \in 1..Len(particles) : particles[k].p.color = color

\* C17: collidesWith is true exactly when the bird's box shrunk by
\* hitboxPadding overlaps the pipe's x-band and its padded top is above
\* topHeight or its padded bottom below topHeight + gap; the verdict shows
\* in the tick as the collision burst and GAME_OVER.
C17_CollisionVerdict ==
    AfterPlayingTick =>
        LET breached(p) ==
                /\ IsNum(bird.y)
                /\ birdX + birdWidth - hitboxPadding > p.x
                /\ birdX + hitboxPadding < p.x + pipeWidth
                /\ \/ bird.y + hitboxPadding < p.topHeight
                   \/ bird.y + birdHeight - hitboxPadding > p.topHeight + p.gap
            hit == \E i \in 1..Len(pipes) : breached(pipes[i])
        IN /\ HasBurst("#FF0000") <=> hit
           /\ hit => gameState = GAME_OVER

C17_PipeHit ==
    /\ AfterPlayingTick
    /\ HasBurst("#FF0000")
    /\ gameState = GAME_OVER
    /\ pipes # <<>>

\* C18: a pipe's speed, gap and topHeight never change after its spawn, and
\* a new pipe takes gap = the current gap and speed = baseSpeed times the
\* multiplier current at its spawn.
C18_PipeFieldsFixed ==
    [][\A j \in 1..Len(pipes') :
          LET q == pipes'[j]
          IN IF q.born \in Born(pipes)
             THEN LET p == pipes[Place(pipes, q.born)]
                  IN q.speed = p.speed /\ q.gap = p.gap /\ q.topHeight = p.topHeight
             ELSE /\ q.speed * multiplierOne = baseSpeed * difficultyMultiplier
                  /\ q.gap = currentPipeGap]_vars

C18_DifficultyMovedOn ==
    \E i \in 1..Len(pipes) :
        /\ pipes[i].speed * multiplierOne < baseSpeed * difficultyMultiplier
        /\ pipes[i].gap > currentPipeGap
        /\ IsNum(bird.y)

\* C19: on every tick the delta used is min(timestamp - previous, 100 ms),
\* so it never exceeds 100 ms, and after the tick the stored previous
\* timestamp is that tick's timestamp, whatever the phase.
C19_ClockCap ==
    [][HandlerStep("tick") =>
          /\ deltaTime' = IF IsNum(ev'.elapsed)
                          THEN (IF ev'.elapsed < maxDeltaTime
                                THEN ev'.elapsed ELSE maxDeltaTime)
                          ELSE NaN
          /\ ~Gt(deltaTime', maxDeltaTime)
          /\ sinceFrame' = IF pc = "load" THEN Undefined ELSE 0]_vars

C19_Capped ==
    /\ ev.kind = "tick"
    /\ Gt(ev.elapsed, maxDeltaTime)
    /\ deltaTime = maxDeltaTime
    /\ sinceFrame = 0

\* the last handler was a resume
AfterResume == ev.kind = "pause" /\ ev.accepted /\ ev.phase0 = PAUSED

\* C20: the first tick after a resume (and any tick within 100 ms of it)
\* uses a delta no larger than the time since the resume and no larger
\* than 100 ms.
C20_ResumeDelta ==
    [][HandlerStep("tick") /\ (AfterResume \/ sinceResume' < maxDeltaTime) =>
          /\ Le(deltaTime', sinceResume')
          /\ Le(deltaTime', maxDeltaTime)]_vars

C20_TickSoonAfterResume ==
    /\ AfterPlayingTick
    /\ sinceCall = 0
    /\ sinceResume < maxDeltaTime
    /\ deltaTime = sinceResume
    /\ sinceResume > 0

\* C21: a jump input that arrives less than 100 ms after the last jump
\* input that applied an impulse or started a game changes no state at
\* all, the cooldown timestamp included; so two impulses or game starts are
\* never less than 100 ms apart.
C21_Cooldown ==
    [][HandlerStep("jump") /\ sinceApplied < jumpCooldown =>
          UNCHANGED <<gameState, score, bestScore, storage, frame, particles,
                      groundOffset, deltaTime, difficultyMultiplier,
                      currentPipeGap, bird, pipes, mountains, sinceFrame,
                      sinceJump, sinceApplied>>]_vars

C21_Rejected ==
    /\ ev.kind = "jump" /\ ~ev.accepted
    /\ ev.phase0 = PLAYING
    /\ 0 < sinceApplied /\ sinceApplied < jumpCooldown

\* C28 as stated: a jump input arriving in PLAYING at least 100 ms after
\* the last jump input that applied an impulse or started a game is always
\* applied (velocity becomes jumpStrength), whatever inputs were ignored in
\* between, jump inputs in PAUSED included.
C28_AppliedAfterCooldown ==
    [][HandlerStep("jump") /\ gameState = PLAYING /\ sinceApplied >= jumpCooldown =>
          bird'.velocity = jumpStrength]_vars

\* C22 as stated: if the best-score write throws during a game-over
\* transition the failure is ignored: the tick ends in GAME_OVER, runs to
\* its end, and the tick loop stays scheduled.
C22_WriteFailureIgnored ==
    [][PlayingTickStep /\ ~writable /\ gameState' = GAME_OVER =>
          ~ev'.thrown /\ pc' = "run"]_vars

\* the number a stored item is read back as
Stored(item) == LoadBestScore(item)

\* C26 as stated: the persisted best score is written at most once per
\* game (a game ends in the tick that calls gameOver, so: at most once per
\* tick, and by ticks only) and only with a value strictly greater than the
\* value stored before, even when several game-over causes fire in one tick.
C26_WrittenOnce ==
    [][/\ storage' # storage =>
             /\ PlayingTickStep
             /\ Gt(Stored(storage'), Stored(storage))
       /\ HandlerStep("tick") => ev'.writes <= 1]_vars

\* C27: every pipe the constructor can build in a reachable difficulty state,
\* whatever Math.random() returns, has gap = currentPipeGap and
\* minHeight <= topHeight <= canvasHeight - gap - groundHeight - 50 px, the
\* interval is not empty, and the lower edge of its gap is at least 50 px
\* above the ground line; the pipes in the active sequence keep these bounds.
WithinHeights(p) ==
    /\ minHeight <= canvasHeight - p.gap - groundHeight - heightMargin
    /\ minHeight <= p.topHeight
    /\ p.topHeight <= canvasHeight - p.gap - groundHeight - heightMargin
    /\ p.topHeight + p.gap <= groundLine - heightMargin

C27_TopHeightInterval ==
    /\ \A r \in 0 .. RandomDen - 1 :
          /\ NewPipe(World, r).gap = currentPipeGap
          /\ WithinHeights(NewPipe(World, r))
    /\ \A i \in 1 .. Len(pipes) :
          /\ WithinHeights(pipes[i])
          /\ minGap <= pipes[i].gap /\ pipes[i].gap <= pipeGap

C27_NarrowestSpawned ==
    /\ gameState = PLAYING
    /\ currentPipeGap = minGap
    /\ \E i \in 1 .. Len(pipes) : pipes[i].born = frame /\ pipes[i].gap = minGap
    /\ pipeGap - score * gapDecreasePerScore < minGap

\* C29 as stated: after every call of the tick handler, the script's own
\* first call and the first scheduled frame included, the elapsed time was
\* a defined number, the delta is a number in [0, 100] ms, and the parallax
\* positions, the bird and the pipes are defined numbers.
C29_DefinedDelta ==
    ev.kind = "tick" =>
        /\ IsNum(ev.elapsed)
        /\ IsNum(deltaTime) /\ 0 <= deltaTime /\ deltaTime <= maxDeltaTime
        /\ IsNum(mountains[1]) /\ IsNum(mountains[2])
        /\ IsNum(bird.y) /\ IsNum(bird.velocity)
        /\ \A i \in 1 .. Len(pipes) : IsNum(pipes[i].x)

\* C30 as stated, as the progress every tick must make for the phase to
\* reach GAME_OVER without input: a tick that starts in PLAYING with a
\* delta greater than 0 ends the game, or raises the bird's velocity (which
\* terminalVelocity bounds), or, at terminalVelocity, moves the bird down
\* (which the ground line bounds).
C30_FallsToGameOver ==
    [][PlayingTickStep /\ Gt(deltaTime', 0) =>
          \/ gameState' = GAME_OVER
          \/ Gt(bird'.velocity, bird.velocity)
          \/ bird'.velocity = terminalVelocity /\ Gt(bird'.y, bird.y)]_vars

\* C23 as stated: a stored best score that is absent or not a number counts
\* as the number 0, in the legacy implementation too, so that when a game
\* has ended with a score S > 0 the best score is a number, is at least S,
\* and is what the storage holds.
C23_FirstGameSetsBest ==
    gameState = GAME_OVER /\ score > 0 =>
        /\ bestScore # Junk
        /\ bestScore >= score
        /\ storage = <<bestScore>>

\* C24 as stated: in a PLAYING tick every pipe of the active sequence is
\* advanced exactly once, by its speed times the normalized delta (the pipe
\* spawned in this tick from the right edge), and collision-tested once, so
\* that a pipe left overlapping the bird's hitbox has ended the game; also
\* in the ticks that remove another pipe.
C24_EveryPipeOnce ==
    [][PlayingTickStep =>
          \A i \in 1 .. Len(pipes') :
              LET q == pipes'[i]
              IN /\ q.born = frame' => q.x = Sub(canvasWidth, Mul(q.speed, deltaTime'))
                 /\ \A j \in 1 .. Len(pipes) :
                       pipes[j].born = q.born =>
                           q.x = Sub(pipes[j].x, Mul(q.speed, deltaTime'))
                 /\ Collides(q, bird') => gameState' = GAME_OVER]_vars

\* C25 as stated: in the legacy implementation a jump input in START or
\* GAME_OVER leaves the frame counter at 0 and no particle but those of the
\* start's own jump, and the tick that spawns a game's first pipe is the
\* game's 120th PLAYING tick.
C25_LegacyStartResets ==
    [][/\ GameStartStep =>
             /\ frame' = 0
             /\ Count(particles') = IF gameState = START THEN 5 ELSE 0
       /\ PlayingTickStep /\ pipes = <<>> /\ pipes' # <<>> =>
             ev'.ticks = pipeInterval]_vars

====
